---- MODULE Spec2Model ----
(***************************************************************************)
(* The export-trigger / poll / download cycle of gbackup, in its three     *)
(* variants:                                                               *)
(*   gbackup.py        main over the sections of ~/.gbackup.ini,           *)
(*                     backup_gitlab -> gl_download_project,               *)
(*                     backup_github -> gh_user_migration                  *)
(*   glbackup.py       main -> download_project (one GitLab target)        *)
(*   gbackup_async.py  main: trigger every export, then                    *)
(*                     download_gitlab_export in reverse order             *)
(* One behaviour is one run of one of the three programs.  The provider    *)
(* (GitLab / GitHub) is the environment: what each request returns, and    *)
(* whether a client call raises, is chosen with \E.                        *)
(***************************************************************************)
EXTENDS Naturals, Sequences, FiniteSets

\* ------------------------------------------------------------------ bounds
MaxSections == 2
MaxProjects == 2
MaxPolls == 4
MaxSize == 2
MaxNames == 2     \* group names, and user names, of one GitLab target
MaxListing == 2   \* projects one run backs up
StartClock == 57  \* the wall clock when the first run starts, in seconds
MaxClock == 62    \* the wall clock stops here

\* -------------------------------------------------------- program constants
EXPORT_WAIT_TIME == 2
\* strftime's %M is the last field of the file name: one name per minute
SecondsPerMinute == 60
GITLAB_EXPORT_FINISHED_STATUS == "finished"
GITHUB_EXPORTED_STATUS == "exported"
SECTION_TO_UTILITY == {"gitlab", "github"}

Programs == {"gbackup", "glbackup", "async"}

\* export_status / migration state values a status check may carry
Statuses == {"pending", "exporting", "finished", "exported", "failed"}
\* what check_export_status returns: the export_status, or None (a response
\* other than 200, or a 200 body without the export_status key)
AsyncStatuses == Statuses \cup {"None"}
\* HTTP status codes of the responses the pipelined variant inspects
HttpStatuses == {200, 202, 404}

\* a section of ~/.gbackup.ini: its `type` option ("missing" = no such option)
\* and the number of projects its enumeration returns
Sections ==
  {[type |-> t, nproj |-> n] : t \in SECTION_TO_UTILITY, n \in 0..MaxProjects}
    \cup {[type |-> "svn", nproj |-> 0], [type |-> "missing", nproj |-> 0]}

Configs == UNION {[1..n -> Sections] : n \in 0..MaxSections}

\* the listing of get_user_projects: statistics.repository_size per project,
\* a project's id being its place in the listing
ProjectLists == UNION {[1..n -> 1..MaxSize] : n \in 0..MaxProjects}

VARIABLES
  prog,        \* which script runs
  cfgFound,    \* the configuration file exists (and has the needed section)
  config,      \* gbackup.py / glbackup.py: the sections, in file order
  projects,    \* gbackup_async.py: repository sizes as listed
  pc,          \* position of the run
  si,          \* index of the section being processed
  pi,          \* index of the project being processed (in the current loop)
  order,       \* gbackup_async.py: ids in the order sorted() yields
  migrations,  \* gbackup_async.py: ids whose export was triggered
  cyc,         \* the export cycle in progress, or the last one run
  exc,         \* the last exception raised since an export was last triggered
  logged,      \* the last error message written
  exitStatus,  \* the process exit status, read once pc = "exit"
  trigLog,     \* gbackup_async.py: the export-create requests issued, in order
  pollLog,     \* gbackup_async.py: ids in the order of their first status check
  files,       \* gbackup_async.py: ids whose archive file was opened
  \* gl_get_projects on its own (SpecEnum)
  ng,          \* number of names in config['group'] (0: no such option)
  nu,          \* number of names in config['user']
  gi,          \* groups processed so far
  ui,          \* users processed so far
  epc,         \* position of gl_get_projects
  eprojects,   \* its local list `projects`
  returned,    \* the lists the provider returned, in call order
  calls,       \* number of provider calls made, per kind
  \* the archive files of two successive runs (SpecFiles)
  script,      \* which script runs
  listing,     \* path_with_namespace of the projects the run iterates over
  run,         \* "first" or "second" run
  clock,       \* the wall clock, in seconds
  fpc,         \* position of the run
  fi,          \* index of the project being processed
  fcyc,        \* the cycle of that project
  export_path, \* the archive path last computed
  opens,       \* the archive files opened for writing, in order
  clean        \* no cycle of either run has failed so far

mainv == <<prog, cfgFound, config, projects, pc, si, pi, order, migrations, cyc,
           exc, logged, exitStatus, trigLog, pollLog, files>>
enumv == <<ng, nu, gi, ui, epc, eprojects, returned, calls>>
filev == <<script, listing, run, clock, fpc, fi, fcyc, export_path, opens, clean>>

vars == <<mainv, enumv, filev>>

input == <<prog, cfgFound, config, projects>>
asyncv == <<order, migrations, trigLog, pollLog, files>>

NoExc == [step |-> "none", si |-> 0, pi |-> 0]

NewCycle(kind, id) ==
  [kind |-> kind, id |-> id, step |-> "none", status |-> "unset", polls |-> 0,
   sleeps |-> 0, waited |-> 0, nNonTerm |-> 0, seenFailed |-> FALSE,
   seenNone |-> FALSE, dl |-> FALSE, file |-> FALSE]

NoCycle == NewCycle("none", 0)

\* path_with_namespace of the projects the provider knows
Names == {"grp/a", "grp/b"}

NoCalls == [get |-> 0, glist |-> 0, resolve |-> 0, ulist |-> 0]

\* an archive path: <backup_dir>/[<section>/]<path_with_namespace>/<stamp>.tar.gz
NoPath == [target |-> "none", ns |-> "none", stamp |-> 0]

\* a cycle: the last status read, the status checks made, how its download
\* step ended, the clock when the cycle began and at its download step
NewFileCycle ==
  [status |-> "unset", polls |-> 0, outcome |-> "none", t0 |-> 0, tdl |-> 0]

\* the variables of a part of the program that a specification leaves aside
MainIdle ==
  /\ prog = "gbackup" /\ cfgFound = FALSE /\ config = <<>> /\ projects = <<>>
  /\ pc = "idle" /\ si = 0 /\ pi = 0 /\ order = <<>> /\ migrations = <<>>
  /\ cyc = NoCycle /\ exc = NoExc /\ logged = "none" /\ exitStatus = 0
  /\ trigLog = <<>> /\ pollLog = <<>> /\ files = {}

EnumIdle ==
  /\ ng = 0 /\ nu = 0 /\ gi = 0 /\ ui = 0 /\ epc = "idle"
  /\ eprojects = <<>> /\ returned = <<>> /\ calls = NoCalls

FilesIdle ==
  /\ script = "gbackup" /\ listing = <<>> /\ run = "first" /\ clock = StartClock
  /\ fpc = "idle" /\ fi = 0 /\ fcyc = NewFileCycle /\ export_path = NoPath
  /\ opens = <<>> /\ clean = TRUE

Init ==
  /\ prog \in Programs
  /\ cfgFound \in BOOLEAN
  /\ config \in IF ~cfgFound \/ prog = "async" THEN {<<>>}
                ELSE IF prog = "gbackup" THEN Configs
                ELSE {<<[type |-> "gitlab", nproj |-> n]>> : n \in 0..MaxProjects}
  /\ projects \in IF cfgFound /\ prog = "async" THEN ProjectLists ELSE {<<>>}
  /\ pc = "start"
  /\ si = 0
  /\ pi = 0
  /\ order = <<>>
  /\ migrations = <<>>
  /\ cyc = NoCycle
  /\ exc = NoExc
  /\ logged = "none"
  /\ exitStatus = 0
  /\ trigLog = <<>>
  /\ pollLog = <<>>
  /\ files = {}
  /\ EnumIdle
  /\ FilesIdle

\* ------------------------------------------------------------ pure helpers
Range(s) == {s[i] : i \in DOMAIN s}

Reverse(s) == [i \in 1..Len(s) |-> s[Len(s) + 1 - i]]

\* the provider kind whose cycle code runs for the current project
Kind ==
  IF prog = "async" THEN "async"
  ELSE IF prog = "glbackup" THEN "gitlab"
  ELSE IF si \in DOMAIN config THEN config[si].type ELSE "none"

\* the status each variant waits for
Success(kind) ==
  IF kind = "github" THEN GITHUB_EXPORTED_STATUS ELSE GITLAB_EXPORT_FINISHED_STATUS

\* one more status check answered `st` in the cycle
Polled(c, st) ==
  [c EXCEPT !.step = "poll", !.status = st, !.polls = @ + 1,
            !.nNonTerm = IF st \in {"pending", "exporting"} THEN @ + 1 ELSE @,
            !.seenFailed = @ \/ st = "failed",
            !.seenNone = @ \/ st = "None"]

Slept(c) ==
  [c EXCEPT !.step = "sleep", !.sleeps = @ + 1, !.waited = @ + EXPORT_WAIT_TIME]

\* ------------------------------------------------- control-flow fragments
\* the for loop over the projects of a target moves on, or the target is done
NextProject ==
  IF pi < config[si].nproj
    THEN pc' = "trigger" /\ pi' = pi + 1 /\ UNCHANGED <<si, exitStatus>>
  ELSE IF prog = "gbackup"
    THEN pc' = "section" /\ si' = si + 1 /\ UNCHANGED <<pi, exitStatus>>
  ELSE pc' = "exit" /\ exitStatus' = 0 /\ UNCHANGED <<si, pi>>

\* an exception leaves backup_gitlab / backup_github (caught by main's
\* try/except, which logs and goes to the next section) or glbackup's main
\* (nothing catches it: the process ends with a traceback, status 1)
Propagate(step) ==
  /\ exc' = [step |-> step, si |-> si, pi |-> pi]
  /\ IF prog = "gbackup"
       THEN /\ logged' = "section_failed"
            /\ pc' = "section"
            /\ si' = si + 1
            /\ UNCHANGED <<pi, exitStatus>>
       ELSE /\ pc' = "exit"
            /\ exitStatus' = 1
            /\ UNCHANGED <<si, pi, logged>>

\* an exception nothing catches ends the process with status 1
Crash(step) ==
  /\ exc' = [step |-> step, si |-> si, pi |-> pi]
  /\ pc' = "exit"
  /\ exitStatus' = 1
  /\ UNCHANGED <<si, pi, logged>>

\* ------------------------------------------------------ gbackup.py: main
\* a main that dispatches whatever the `type` option says
Unsupported_NoCheck(type) == FALSE

\* the membership test of main's loop
Unsupported(type) == type \notin SECTION_TO_UTILITY

GetConfig ==
  /\ pc = "start"
  /\ prog = "gbackup"
  /\ IF ~cfgFound
       THEN /\ logged' = "no_config"
            /\ pc' = "exit"
            /\ exitStatus' = 1
            /\ UNCHANGED si
       ELSE /\ pc' = "section"
            /\ si' = 1
            /\ UNCHANGED <<logged, exitStatus>>
  /\ UNCHANGED <<input, enumv, filev, asyncv, pi, cyc, exc>>

MainSection ==
  /\ pc = "section"
  /\ prog = "gbackup"
  /\ IF si > Len(config)
       THEN /\ pc' = "exit"
            /\ exitStatus' = 0
            /\ UNCHANGED <<si, pi, exc, logged>>
     ELSE IF config[si].type = "missing"
       THEN Crash("type")
     ELSE IF Unsupported(config[si].type)
       THEN /\ logged' = "unsupported"
            /\ si' = si + 1
            /\ UNCHANGED <<pc, pi, exc, exitStatus>>
     ELSE /\ pc' = "enumerate"
          /\ UNCHANGED <<si, pi, exc, logged, exitStatus>>
  /\ UNCHANGED <<input, enumv, filev, asyncv, cyc>>

\* --------------------------------------------------- glbackup.py: main
GlGetConfig ==
  /\ pc = "start"
  /\ prog = "glbackup"
  /\ IF ~cfgFound
       THEN Crash("config")
       ELSE /\ pc' = "enumerate"
            /\ si' = 1
            /\ UNCHANGED <<pi, exc, logged, exitStatus>>
  /\ UNCHANGED <<input, enumv, filev, asyncv, cyc>>

\* ------------------------- enumeration (gl_get_projects, get_repos, get_projects)
Enumerate ==
  /\ pc = "enumerate"
  /\ \E outcome \in {"ok", "raise"} :
       IF outcome = "raise"
         THEN Propagate("enumerate")
       ELSE /\ UNCHANGED <<exc, logged>>
            /\ IF config[si].nproj = 0
                 THEN IF prog = "gbackup"
                        THEN pc' = "section" /\ si' = si + 1 /\ UNCHANGED <<pi, exitStatus>>
                        ELSE pc' = "exit" /\ exitStatus' = 0 /\ UNCHANGED <<si, pi>>
                 ELSE pc' = "trigger" /\ pi' = 1 /\ UNCHANGED <<si, exitStatus>>
  /\ UNCHANGED <<input, enumv, filev, asyncv, cyc>>

\* --------------------- gl_download_project (and glbackup's download_project)
\* the while condition: export.export_status != GITLAB_EXPORT_FINISHED_STATUS
gl_LoopContinues(st) == st # GITLAB_EXPORT_FINISHED_STATUS

\* a backup_gitlab that triggers the export of every project before it polls
GlTrigger_Pipelined ==
  /\ pc = "trigger"
  /\ Kind = "gitlab"
  /\ cyc' = [NewCycle("gitlab", pi) EXCEPT !.step = "trigger"]
  /\ exc' = NoExc
  /\ IF pi < config[si].nproj
       THEN pc' = "trigger" /\ pi' = pi + 1
       ELSE pc' = "poll" /\ pi' = pi
  /\ UNCHANGED <<input, enumv, filev, asyncv, si, logged, exitStatus>>

GlTrigger ==
  /\ pc = "trigger"
  /\ Kind = "gitlab"
  /\ \E outcome \in {"ok", "raise"} :
       IF outcome = "raise"
         THEN /\ cyc' = [NewCycle("gitlab", pi) EXCEPT !.step = "trigger_raised"]
              /\ Propagate("trigger")
         ELSE /\ cyc' = [NewCycle("gitlab", pi) EXCEPT !.step = "trigger"]
              /\ pc' = "poll"
              /\ exc' = NoExc
              /\ UNCHANGED <<si, pi, logged, exitStatus>>
  /\ UNCHANGED <<input, enumv, filev, asyncv>>

GlPoll ==
  /\ pc = "poll"
  /\ Kind = "gitlab"
  /\ cyc.polls < MaxPolls
  /\ \/ /\ cyc' = [cyc EXCEPT !.step = "poll_raised"]
        /\ Propagate("poll")
     \/ \E st \in Statuses :
          /\ cyc' = Polled(cyc, st)
          /\ pc' = IF gl_LoopContinues(st) THEN "sleep" ELSE "download"
          /\ UNCHANGED <<si, pi, exc, logged, exitStatus>>
  /\ UNCHANGED <<input, enumv, filev, asyncv>>

GlSleep ==
  /\ pc = "sleep"
  /\ Kind = "gitlab"
  /\ cyc' = Slept(cyc)
  /\ pc' = "poll"
  /\ UNCHANGED <<input, enumv, filev, asyncv, si, pi, exc, logged, exitStatus>>

GlDownload ==
  /\ pc = "download"
  /\ Kind = "gitlab"
  /\ \E outcome \in {"ok", "mkdir_raises", "download_raises"} :
       /\ cyc' = [cyc EXCEPT !.step = "download",
                             !.file = (outcome # "mkdir_raises"),
                             !.dl = (outcome # "mkdir_raises")]
       /\ IF outcome = "ok"
            THEN NextProject /\ UNCHANGED <<exc, logged>>
            ELSE Propagate("download")
  /\ UNCHANGED <<input, enumv, filev, asyncv>>

\* --------------------------------------------------- gh_user_migration
\* a loop that waits on 'pending' only
gh_LoopContinues_PendingOnly(st) == st = "pending"

\* the while condition: status in ('pending', 'exporting')
gh_LoopContinues(st) == st \in {"pending", "exporting"}

GhTrigger ==
  /\ pc = "trigger"
  /\ Kind = "github"
  /\ \E outcome \in {"ok", "raise"} :
       IF outcome = "raise"
         THEN /\ cyc' = [NewCycle("github", pi) EXCEPT !.step = "trigger_raised"]
              /\ Propagate("trigger")
         ELSE /\ cyc' = [NewCycle("github", pi) EXCEPT !.step = "trigger"]
              /\ pc' = "poll"
              /\ exc' = NoExc
              /\ UNCHANGED <<si, pi, logged, exitStatus>>
  /\ UNCHANGED <<input, enumv, filev, asyncv>>

GhPoll ==
  /\ pc = "poll"
  /\ Kind = "github"
  /\ cyc.polls < MaxPolls
  /\ \/ /\ cyc' = [cyc EXCEPT !.step = "poll_raised"]
        /\ Propagate("poll")
     \/ \E st \in Statuses :
          /\ cyc' = Polled(cyc, st)
          /\ pc' = IF gh_LoopContinues(st) THEN "sleep" ELSE "download"
          /\ UNCHANGED <<si, pi, exc, logged, exitStatus>>
  /\ UNCHANGED <<input, enumv, filev, asyncv>>

GhSleep ==
  /\ pc = "sleep"
  /\ Kind = "github"
  /\ cyc' = Slept(cyc)
  /\ pc' = "poll"
  /\ UNCHANGED <<input, enumv, filev, asyncv, si, pi, exc, logged, exitStatus>>

\* the try block after the loop: every exception in it is caught and logged
GhDownload ==
  /\ pc = "download"
  /\ Kind = "github"
  /\ IF cyc.status = "failed"
       THEN /\ cyc' = [cyc EXCEPT !.step = "download"]
            /\ logged' = "backup_failed"
            /\ UNCHANGED exc
     ELSE IF cyc.status # GITHUB_EXPORTED_STATUS
       THEN /\ cyc' = [cyc EXCEPT !.step = "download"]
            /\ logged' = "project_failed"
            /\ exc' = [step |-> "assert", si |-> si, pi |-> pi]
     ELSE \E outcome \in {"ok", "url_raises", "download_raises"} :
            /\ cyc' = [cyc EXCEPT !.step = "download",
                                  !.file = (outcome # "url_raises"),
                                  !.dl = (outcome # "url_raises")]
            /\ IF outcome = "ok"
                 THEN UNCHANGED <<exc, logged>>
                 ELSE /\ logged' = "project_failed"
                      /\ exc' = [step |-> "download", si |-> si, pi |-> pi]
  /\ NextProject
  /\ UNCHANGED <<input, enumv, filev, asyncv>>

\* ------------------------------------------------ gbackup_async.py: main
\* sorted(projects, key=repository_size, reverse=True): the ids by size,
\* largest first; the sort is stable, so equal sizes keep their listing order
RECURSIVE InsertDesc(_, _, _)
InsertDesc(s, x, sizes) ==
  IF s = <<>> THEN <<x>>
  ELSE IF sizes[Head(s)] >= sizes[x] THEN <<Head(s)>> \o InsertDesc(Tail(s), x, sizes)
  ELSE <<x>> \o s

RECURSIVE SortedPrefix(_, _)
SortedPrefix(sizes, n) ==
  IF n = 0 THEN <<>> ELSE InsertDesc(SortedPrefix(sizes, n - 1), n, sizes)

sorted(sizes) == SortedPrefix(sizes, Len(sizes))

\* a start_gitlab_export that takes every 2xx answer for an accepted export
start_gitlab_export_Any2xx(respStatus) == respStatus \in {200, 202}

\* start_gitlab_export: True exactly on 202 Accepted
start_gitlab_export(respStatus) == respStatus = 202

\* check_export_status: the export_status of a 200 response, else None
check_export_status(respStatus, exportStatus) ==
  IF respStatus = 200 THEN exportStatus ELSE "None"

\* the while condition of download_gitlab_export: status != 'finished'
async_LoopContinues(st) == st # "finished"

\* a trigger loop left after its first iteration
TriggersDone_AfterFirst == pi > 1 \/ pi > Len(order)

\* the for loop over sorted(projects) has run out
TriggersDone == pi > Len(order)

\* a main that forgets migrations.reverse()
DownloadOrder_NotReversed(m) == m

\* migrations.reverse()
DownloadOrder(m) == Reverse(m)

\* a download_gitlab_export whose early return ends main's loop as well
AsyncReturn_EndsLoop == pc' = "next" /\ pi' = Len(migrations) + 1

\* download_gitlab_export returns: main's for loop takes the next migration
AsyncReturn == pc' = "next" /\ pi' = pi + 1

\* a main that takes the missing listing for an empty one
sorted_None_AsEmpty ==
  /\ order' = <<>>
  /\ pi' = 1
  /\ pc' = "trigger"
  /\ UNCHANGED <<si, exc, exitStatus>>

\* sorted(None): get_user_projects returned nothing, TypeError ends the run
sorted_None ==
  /\ exc' = [step |-> "sorted", si |-> si, pi |-> pi]
  /\ pc' = "exit"
  /\ exitStatus' = 1
  /\ UNCHANGED <<si, pi, order>>

AsyncGetConfig ==
  /\ pc = "start"
  /\ prog = "async"
  /\ IF ~cfgFound
       THEN Crash("config")
       ELSE pc' = "list" /\ UNCHANGED <<si, pi, exc, logged, exitStatus>>
  /\ UNCHANGED <<input, enumv, filev, asyncv, cyc>>

\* get_user_projects, then sorted() over what it returned
AsyncList ==
  /\ pc = "list"
  /\ \E respStatus \in {200, 404}, json \in BOOLEAN :
       IF respStatus = 200 /\ json
         THEN /\ order' = sorted(projects)
              /\ pi' = 1
              /\ pc' = "trigger"
              /\ UNCHANGED <<si, exc, logged, exitStatus>>
         ELSE /\ logged' = "bad_response"
              /\ sorted_None
  /\ UNCHANGED <<input, enumv, filev, migrations, trigLog, pollLog, files, cyc>>

AsyncTrigger ==
  /\ pc = "trigger"
  /\ prog = "async"
  /\ ~TriggersDone
  /\ \/ Crash("trigger") /\ UNCHANGED <<migrations, trigLog>>
     \/ \E respStatus \in HttpStatuses :
          /\ trigLog' = Append(trigLog, [id |-> order[pi], status |-> respStatus])
          /\ IF start_gitlab_export(respStatus)
               THEN migrations' = Append(migrations, order[pi]) /\ UNCHANGED logged
               ELSE logged' = "unable_to_trigger" /\ UNCHANGED migrations
          /\ pi' = pi + 1
          /\ UNCHANGED <<pc, si, exc, exitStatus>>
  /\ UNCHANGED <<input, enumv, filev, order, pollLog, files, cyc>>

AsyncReverse ==
  /\ pc = "trigger"
  /\ prog = "async"
  /\ TriggersDone
  /\ migrations' = DownloadOrder(migrations)
  /\ pi' = 1
  /\ pc' = "next"
  /\ UNCHANGED <<input, enumv, filev, order, trigLog, pollLog, files, cyc, si, exc, logged, exitStatus>>

\* the for loop over migrations: the next project's path, or the session closes
AsyncNext ==
  /\ pc = "next"
  /\ IF pi > Len(migrations)
       THEN /\ pc' = "exit"
            /\ exitStatus' = 0
            /\ UNCHANGED cyc
       ELSE /\ cyc' = NewCycle("async", migrations[pi])
            /\ pc' = "poll"
            /\ UNCHANGED exitStatus
  /\ UNCHANGED <<input, enumv, filev, asyncv, si, pi, exc, logged>>

AsyncPoll ==
  /\ pc = "poll"
  /\ prog = "async"
  /\ cyc.polls < MaxPolls
  /\ \/ /\ cyc' = [cyc EXCEPT !.step = "poll_raised"]
        /\ Crash("poll")
        /\ UNCHANGED pollLog
     \/ \E respStatus \in {200, 404}, exportStatus \in AsyncStatuses :
          LET st == check_export_status(respStatus, exportStatus)
              first == cyc.polls = 0
          IN /\ cyc' = Polled(cyc, st)
             /\ pollLog' = IF first THEN Append(pollLog, cyc.id) ELSE pollLog
             /\ IF ~first /\ st = "None"
                  THEN /\ logged' = "unable_to_check"
                       /\ AsyncReturn
                  ELSE /\ pc' = IF async_LoopContinues(st) THEN "sleep" ELSE "download"
                       /\ UNCHANGED <<pi, logged>>
             /\ UNCHANGED <<si, exc, exitStatus>>
  /\ UNCHANGED <<input, enumv, filev, order, migrations, trigLog, files>>

AsyncSleep ==
  /\ pc = "sleep"
  /\ prog = "async"
  /\ cyc' = Slept(cyc)
  /\ pc' = "poll"
  /\ UNCHANGED <<input, enumv, filev, asyncv, si, pi, exc, logged, exitStatus>>

AsyncDownload ==
  /\ pc = "download"
  /\ prog = "async"
  /\ \/ /\ cyc' = [cyc EXCEPT !.step = "download", !.dl = TRUE]
        /\ Crash("download")
        /\ UNCHANGED files
     \/ /\ cyc' = [cyc EXCEPT !.step = "download", !.dl = TRUE, !.file = TRUE]
        /\ files' = files \cup {cyc.id}
        /\ Crash("read")
     \/ \E respStatus \in {200, 404} :
          /\ cyc' = [cyc EXCEPT !.step = "download", !.dl = TRUE,
                                !.file = (respStatus = 200)]
          /\ files' = IF respStatus = 200 THEN files \cup {cyc.id} ELSE files
          /\ logged' = IF respStatus = 200 THEN logged ELSE "download_failed"
          /\ AsyncReturn
          /\ UNCHANGED <<si, exc, exitStatus>>
  /\ UNCHANGED <<input, enumv, filev, order, migrations, trigLog, pollLog>>

\* ---------------------------------------------------------- specification
Next ==
  \/ GetConfig
  \/ MainSection
  \/ GlGetConfig
  \/ Enumerate
  \/ GlTrigger
  \/ GlPoll
  \/ GlSleep
  \/ GlDownload
  \/ GhTrigger
  \/ GhPoll
  \/ GhSleep
  \/ GhDownload
  \/ AsyncGetConfig
  \/ AsyncList
  \/ AsyncTrigger
  \/ AsyncReverse
  \/ AsyncNext
  \/ AsyncPoll
  \/ AsyncSleep
  \/ AsyncDownload

Spec == Init /\ [][Next]_vars

\* ------------------------------------------ gl_get_projects (gbackup.py)
\* what a projects.list() call may return
Pages == {<<>>, <<"grp/a">>, <<"grp/b">>, <<"grp/a", "grp/b">>}

extend_NoDuplicates(lst, page) ==
  lst \o SelectSeq(page, LAMBDA x : x \notin Range(lst))

\* list.extend
extend(lst, page) == lst \o page

InitEnum ==
  /\ ng \in 0..MaxNames
  /\ nu \in 0..MaxNames
  /\ gi = 0
  /\ ui = 0
  /\ epc = "run"
  /\ eprojects = <<>>
  /\ returned = <<>>
  /\ calls = NoCalls
  /\ MainIdle
  /\ FilesIdle

\* one turn of the loop over config['group'].split()
EnumGroup ==
  /\ epc = "run"
  /\ gi < ng
  /\ \/ \* gl.groups.get raises (no such group, no connection)
        /\ calls' = [calls EXCEPT !.get = @ + 1]
        /\ epc' = "raised"
        /\ UNCHANGED <<gi, eprojects, returned>>
     \/ \* group.projects.list raises
        /\ calls' = [calls EXCEPT !.get = @ + 1, !.glist = @ + 1]
        /\ epc' = "raised"
        /\ UNCHANGED <<gi, eprojects, returned>>
     \/ \E page \in Pages :
          /\ calls' = [calls EXCEPT !.get = @ + 1, !.glist = @ + 1]
          /\ returned' = Append(returned, [kind |-> "group", page |-> page])
          /\ eprojects' = extend(eprojects, page)
          /\ gi' = gi + 1
          /\ UNCHANGED epc
  /\ UNCHANGED <<ng, nu, ui, mainv, filev>>

\* one turn of the loop over config['user'].split()
EnumUser ==
  /\ epc = "run"
  /\ gi = ng
  /\ ui < nu
  /\ \/ \* gl.users.list raises, or returns no user: [0] raises IndexError
        /\ calls' = [calls EXCEPT !.resolve = @ + 1]
        /\ epc' = "raised"
        /\ UNCHANGED <<ui, eprojects, returned>>
     \/ \* user.projects.list raises
        /\ calls' = [calls EXCEPT !.resolve = @ + 1, !.ulist = @ + 1]
        /\ epc' = "raised"
        /\ UNCHANGED <<ui, eprojects, returned>>
     \/ \E page \in Pages :
          /\ calls' = [calls EXCEPT !.resolve = @ + 1, !.ulist = @ + 1]
          /\ returned' = Append(returned, [kind |-> "user", page |-> page])
          /\ eprojects' = extend(eprojects, page)
          /\ ui' = ui + 1
          /\ UNCHANGED epc
  /\ UNCHANGED <<ng, nu, gi, mainv, filev>>

\* return projects
EnumReturn ==
  /\ epc = "run"
  /\ gi = ng
  /\ ui = nu
  /\ epc' = "returned"
  /\ UNCHANGED <<ng, nu, gi, ui, eprojects, returned, calls, mainv, filev>>

NextEnum ==
  \/ EnumGroup
  \/ EnumUser
  \/ EnumReturn

SpecEnum == InitEnum /\ [][NextEnum]_vars

\* -------------------------------- the archive files of two successive runs
\* time.strftime('%d-%b-%Y-%H-%M'): the clock cut to the minute
strftime(t) == t \div SecondsPerMinute

\* gbackup.py puts the section name between backup_dir and the project
target_dir == IF script = "gbackup" THEN "section" ELSE "none"

backup_file_Flat(ns, t) ==
  [target |-> target_dir, ns |-> "none", stamp |-> strftime(t)]

\* backup_path / time.strftime('%d-%b-%Y-%H-%M.tar.gz')
backup_file(ns, t) ==
  [target |-> target_dir, ns |-> ns, stamp |-> strftime(t)]

\* what the status checks of these runs answer
FileStatuses == {"started", "finished"}

\* gl_get_projects may list a project twice (through a group and through a
\* user); glbackup.py lists one group, gbackup_async.py one user
Listings(sc) ==
  LET all == UNION {[1..n -> Names] : n \in 0..MaxListing}
  IN  IF sc = "gbackup" THEN all
      ELSE {l \in all : \A i, j \in DOMAIN l : i # j => l[i] # l[j]}

InitFiles ==
  /\ script \in Programs
  /\ listing \in Listings(script)
  /\ run = "first"
  /\ clock = StartClock
  /\ fpc = "begin"
  /\ fi = 1
  /\ fcyc = NewFileCycle
  /\ export_path = NoPath
  /\ opens = <<>>
  /\ clean = TRUE
  /\ MainIdle
  /\ EnumIdle

\* an exception leaves the loop over the projects: the run is over
FileRaise ==
  /\ fcyc' = [fcyc EXCEPT !.outcome = "raised"]
  /\ fpc' = "exit"
  /\ clean' = FALSE

\* open(backup_file, 'wb'): the file at `path` is created or truncated
Open(path) == opens' = Append(opens, [run |-> run, idx |-> fi, path |-> path])

\* time passes, between any two steps and between the two runs
FTick ==
  /\ clock < MaxClock
  /\ ~(fpc = "exit" /\ run = "second")
  /\ clock' = clock + 1
  /\ UNCHANGED <<script, listing, run, fpc, fi, fcyc, export_path, opens, clean>>
  /\ UNCHANGED <<mainv, enumv>>

\* the for loop over the projects has run out
FLoopEnd ==
  /\ fpc = "begin"
  /\ fi > Len(listing)
  /\ fpc' = "exit"
  /\ UNCHANGED <<script, listing, run, clock, fi, fcyc, export_path, opens, clean>>
  /\ UNCHANGED <<mainv, enumv>>

\* gl_download_project / download_project: projects.get, exports.create
FTrigger ==
  /\ fpc = "begin"
  /\ fi <= Len(listing)
  /\ script # "async"
  /\ \/ FileRaise
     \/ /\ fcyc' = [NewFileCycle EXCEPT !.t0 = clock]
        /\ fpc' = "poll"
        /\ UNCHANGED clean
  /\ UNCHANGED <<script, listing, run, clock, fi, export_path, opens>>
  /\ UNCHANGED <<mainv, enumv>>

\* gbackup_async.py main: export_path = get_project_export_path(project, config)
FExportPath ==
  /\ fpc = "begin"
  /\ fi <= Len(listing)
  /\ script = "async"
  /\ \/ \* project_path.mkdir raises
        FileRaise /\ UNCHANGED export_path
     \/ /\ export_path' = backup_file(listing[fi], clock)
        /\ fcyc' = [NewFileCycle EXCEPT !.t0 = clock]
        /\ fpc' = "poll"
        /\ UNCHANGED clean
  /\ UNCHANGED <<script, listing, run, clock, fi, opens>>
  /\ UNCHANGED <<mainv, enumv>>

\* one status check: export.refresh() / check_export_status
FPoll ==
  /\ fpc = "poll"
  /\ \/ \* the request raises
        FileRaise
     \/ \E st \in FileStatuses \cup (IF script = "async" THEN {"None"} ELSE {}) :
          /\ fcyc' = [fcyc EXCEPT !.status = st, !.polls = @ + 1,
                        !.outcome = IF st = "None" /\ fcyc.polls > 0
                                      THEN "abandoned" ELSE @]
          /\ IF script = "async"
               THEN IF st = "None" /\ fcyc.polls > 0
                      THEN fpc' = "next" /\ clean' = FALSE
                      ELSE /\ fpc' = IF async_LoopContinues(st) THEN "sleep"
                                     ELSE "download"
                           /\ UNCHANGED clean
               ELSE /\ fpc' = IF gl_LoopContinues(st) THEN "sleep" ELSE "download"
                    /\ UNCHANGED clean
  /\ UNCHANGED <<script, listing, run, clock, fi, export_path, opens>>
  /\ UNCHANGED <<mainv, enumv>>

\* time.sleep(EXPORT_WAIT_TIME) / asyncio.sleep(EXPORT_WAIT_TIME)
FSleep ==
  /\ fpc = "sleep"
  /\ clock + EXPORT_WAIT_TIME <= MaxClock
  /\ clock' = clock + EXPORT_WAIT_TIME
  /\ fpc' = "poll"
  /\ UNCHANGED <<script, listing, run, fi, fcyc, export_path, opens, clean>>
  /\ UNCHANGED <<mainv, enumv>>

\* gl_download_project / download_project from backup_path on
FDownload ==
  /\ fpc = "download"
  /\ script # "async"
  /\ \/ \* backup_path.mkdir or open raises: no file
        /\ fcyc' = [fcyc EXCEPT !.outcome = "no_file", !.tdl = clock]
        /\ fpc' = "exit"
        /\ clean' = FALSE
        /\ UNCHANGED <<export_path, opens>>
     \/ \E ok \in BOOLEAN :
          /\ export_path' = backup_file(listing[fi], clock)
          /\ Open(export_path')
          /\ fcyc' = [fcyc EXCEPT !.outcome = IF ok THEN "ok" ELSE "raised",
                                  !.tdl = clock]
          /\ fpc' = IF ok THEN "next" ELSE "exit"
          /\ clean' = (clean /\ ok)
  /\ UNCHANGED <<script, listing, run, clock, fi>>
  /\ UNCHANGED <<mainv, enumv>>

\* download_gitlab_export from session.get(url) on
FAsyncDownload ==
  /\ fpc = "download"
  /\ script = "async"
  /\ \/ \* session.get raises
        FileRaise /\ UNCHANGED opens
     \/ \E resp \in HttpStatuses :
          /\ IF resp = 200 THEN Open(export_path) ELSE UNCHANGED opens
          /\ fcyc' = [fcyc EXCEPT !.outcome = IF resp = 200 THEN "ok"
                                             ELSE "not_200",
                                  !.tdl = clock]
          /\ fpc' = "next"
          /\ clean' = (clean /\ resp = 200)
  /\ UNCHANGED <<script, listing, run, clock, fi, export_path>>
  /\ UNCHANGED <<mainv, enumv>>

\* the for loop takes the next project
FNextProject ==
  /\ fpc = "next"
  /\ fi' = fi + 1
  /\ fcyc' = NewFileCycle
  /\ fpc' = "begin"
  /\ UNCHANGED <<script, listing, run, clock, export_path, opens, clean>>
  /\ UNCHANGED <<mainv, enumv>>

\* the script is started again, same configuration, same backup_dir
FRerun ==
  /\ fpc = "exit"
  /\ run = "first"
  /\ run' = "second"
  /\ fi' = 1
  /\ fcyc' = NewFileCycle
  /\ export_path' = NoPath
  /\ fpc' = "begin"
  /\ UNCHANGED <<script, listing, clock, opens, clean>>
  /\ UNCHANGED <<mainv, enumv>>

NextFiles ==
  \/ FTick
  \/ FLoopEnd
  \/ FTrigger
  \/ FExportPath
  \/ FPoll
  \/ FSleep
  \/ FDownload
  \/ FAsyncDownload
  \/ FNextProject
  \/ FRerun

SpecFiles == InitFiles /\ [][NextFiles]_vars

\* ------------------------------------------------------------------ claims
CyclePcs == {"poll", "sleep", "download"}

\* What does hold of every variant: a download is requested only when the
\* latest status check returned the status the variant waits for.
DownloadAfterSuccess == cyc.dl => cyc.status = Success(cyc.kind)

\* C1: in every variant a download is requested and an archive file is created
\* only after a status check returned the success status, and never for a
\* project whose export has reported 'failed'.
C1_NoDownloadOfFailed ==
  (cyc.dl \/ cyc.file) => (cyc.status = Success(cyc.kind) /\ ~cyc.seenFailed)

\* C2: once a status check of a project has returned 'failed', the cycle of
\* that project has ended: no further wait or status check is pending for it.
C2_FailedEndsCycle == cyc.seenFailed => pc \notin {"poll", "sleep"}

\* C3: in gbackup.py an exception raised by the trigger, poll or download step
\* of a project that is not the last of its target is caught for that project
\* only: the run goes on with the next project of the same target.
C3_ProjectExceptionIsolated ==
  (/\ prog = "gbackup"
   /\ exc.step \in {"trigger", "poll", "download"}
   /\ exc.pi < config[exc.si].nproj)
    => (si = exc.si /\ pi = exc.pi + 1 /\ pc = "trigger")

\* C4: in gbackup.main, when a configuration exists, the run ends only once
\* the loop has reached the last section: no section, however misconfigured
\* (a missing `type` included) or failing, keeps a later section from being
\* attempted.
C4_EverySectionAttempted ==
  (prog = "gbackup" /\ cfgFound /\ pc = "exit") => si >= Len(config)

\* C5: in gbackup.main a section whose declared kind is not gitlab or github
\* gets no enumeration, trigger, poll or download, raises nothing, is logged
\* as unsupported, and never ends the run: the loop continues after it.
C5_UnsupportedSkipped ==
  prog = "gbackup" =>
    /\ pc \in {"enumerate", "trigger"} \cup CyclePcs
         => config[si].type \in {"gitlab", "github"}
    /\ \A s \in DOMAIN config :
         config[s].type = "svn" =>
           /\ exc.si # s
           /\ (pc = "exit" => si # s)
           /\ (si = s + 1 /\ pc = "section" => logged = "unsupported")

C5_Witness ==
  /\ prog = "gbackup"
  /\ si = 2
  /\ config[1].type = "svn"
  /\ pc = "poll"
  /\ logged = "unsupported"

\* C6: in download_gitlab_export, once a status check has returned None the
\* cycle of the project has ended: no further wait, status check or download
\* follows it, the first check of the cycle included.
C6_NoneEndsCycle ==
  (prog = "async" /\ cyc.seenNone) => (pc \notin CyclePcs /\ ~cyc.dl)

TriggeredIds == {trigLog[i].id : i \in DOMAIN trigLog}

\* C7: in gbackup_async.main a project whose export-create request was answered
\* by a status other than 202 is never polled or downloaded and gets no file,
\* while every listed project is triggered before the download phase and, when
\* the run completes, every accepted project has been polled.
C7_RejectedSkipped ==
  prog = "async" =>
    /\ \A i \in DOMAIN trigLog :
         trigLog[i].status # 202 =>
           /\ trigLog[i].id \notin Range(pollLog)
           /\ trigLog[i].id \notin files
           /\ (pc \in CyclePcs => cyc.id # trigLog[i].id)
    /\ pc \in {"next"} \cup CyclePcs => TriggeredIds = DOMAIN projects
    /\ (pc = "exit" /\ exitStatus = 0) =>
         \A i \in DOMAIN trigLog :
           trigLog[i].status = 202 => trigLog[i].id \in Range(pollLog)

C7_Witness ==
  /\ prog = "async"
  /\ \E i, j \in DOMAIN trigLog :
       /\ i < j
       /\ trigLog[i].status # 202
       /\ trigLog[j].status = 202
       /\ trigLog[j].id \in Range(pollLog)

\* C8: in gbackup_async.main no status check and no download request is issued
\* before the export-create request of every listed project has been issued.
C8_AllTriggeredFirst ==
  (/\ prog = "async"
   /\ (pollLog # <<>> \/ cyc.polls > 0 \/ cyc.dl \/ pc \in CyclePcs))
    => (Len(trigLog) = Len(projects) /\ TriggeredIds = DOMAIN projects)

C8_Witness ==
  /\ prog = "async"
  /\ Len(projects) = 2
  /\ cyc.polls > 0
  /\ cyc.dl

AcceptedIds ==
  LET acc == SelectSeq(trigLog, LAMBDA e : e.status = 202)
  IN [i \in 1..Len(acc) |-> acc[i].id]

\* C9: in gbackup_async.main exports are triggered in non-increasing order of
\* repository size, and the accepted projects get their first status check in
\* exactly the reverse of their trigger order, so in non-decreasing size.
C9_TriggerAndDownloadOrder ==
  prog = "async" =>
    /\ \A i, j \in DOMAIN trigLog :
         i < j => projects[trigLog[i].id] >= projects[trigLog[j].id]
    /\ Len(pollLog) <= Len(AcceptedIds)
    /\ pollLog = SubSeq(Reverse(AcceptedIds), 1, Len(pollLog))
    /\ \A i, j \in DOMAIN pollLog :
         i < j => projects[pollLog[i]] <= projects[pollLog[j]]
    /\ (pc = "exit" /\ exitStatus = 0) => pollLog = Reverse(AcceptedIds)

C9_Witness ==
  /\ prog = "async"
  /\ projects = <<1, 2>>
  /\ pollLog = <<1, 2>>
  /\ pc = "exit"

\* C10: while only non-terminal statuses (pending, exporting) have been
\* returned the poller waits EXPORT_WAIT_TIME once and checks again; when n
\* of them have been followed by the success status, n+1 checks and n waits
\* (n * EXPORT_WAIT_TIME in all) have happened, no further wait or check
\* follows, and the download step is next.
C10_PollCount ==
  /\ (cyc.polls > 0 /\ cyc.polls = cyc.nNonTerm) =>
       /\ cyc.step = "poll" => pc = "sleep"
       /\ pc = "sleep" => cyc.sleeps + 1 = cyc.polls
       /\ pc = "poll" => cyc.sleeps = cyc.polls
  /\ (cyc.status = Success(cyc.kind) /\ cyc.polls = cyc.nNonTerm + 1) =>
       /\ cyc.sleeps = cyc.nNonTerm
       /\ cyc.waited = EXPORT_WAIT_TIME * cyc.nNonTerm
       /\ IF cyc.step = "poll" THEN pc = "download" ELSE cyc.step = "download"

C10_Witness ==
  /\ cyc.polls = 4
  /\ cyc.nNonTerm = 3
  /\ cyc.sleeps = 3
  /\ cyc.status = Success(cyc.kind)
  /\ cyc.dl

\* C14: the exit status of gbackup.py and glbackup.py is 1 exactly when no
\* configuration was found; with a configuration it is 0 whatever fails.
C14_ExitStatus ==
  (prog \in {"gbackup", "glbackup"} /\ pc = "exit")
    => ((exitStatus = 1) <=> ~cfgFound)

\* an export has been triggered and its cycle has neither returned nor raised
CycleOpen == cyc.step \in {"trigger", "poll", "sleep"}

\* C16: in gbackup.py and glbackup.py at most one export cycle is in progress:
\* whenever the run is about to trigger an export, to take the next section,
\* to enumerate or to exit, the cycle triggered before has ended.
C16_OneCycleAtATime ==
  prog \in {"gbackup", "glbackup"} =>
    /\ pc \in {"trigger", "section", "enumerate", "exit"} => ~CycleOpen
    /\ pc \in CyclePcs => cyc.id = pi

C16_Witness ==
  /\ prog = "gbackup"
  /\ pc = "trigger"
  /\ pi = 2
  /\ cyc.id = 1
  /\ cyc.step = "download"
  /\ cyc.dl

\* C17: in gbackup_async.main a project abandoned on a None status check or a
\* download answer other than 200 does not stop the run: main takes the next
\* migration, so every migration before the current one has had a status
\* check, and all of them have when the run ends normally.
C17_AbandonDoesNotStop ==
  prog = "async" =>
    /\ (logged \in {"unable_to_check", "download_failed"} /\ exc = NoExc)
         => (pc \in {"next"} \cup CyclePcs \/ (pc = "exit" /\ exitStatus = 0))
    /\ pc = "next" => pollLog = SubSeq(migrations, 1, pi - 1)
    /\ pc \in CyclePcs /\ cyc.polls > 0 => pollLog = SubSeq(migrations, 1, pi)
    /\ (pc = "exit" /\ exitStatus = 0) => pollLog = migrations

C17_Witness ==
  /\ prog = "async"
  /\ logged \in {"unable_to_check", "download_failed"}
  /\ Len(pollLog) = 2
  /\ pollLog[1] \notin files
  /\ cyc.id = pollLog[2]
  /\ cyc.polls = 1

\* C18: when the project listing fails, gbackup_async.main ends with an error
\* before anything else: no export-create, status-check or download request
\* has been issued and no archive file exists.
C18_ListingFailureEndsRun ==
  (prog = "async" /\ logged = "bad_response") =>
    /\ pc = "exit"
    /\ exitStatus = 1
    /\ trigLog = <<>>
    /\ migrations = <<>>
    /\ pollLog = <<>>
    /\ files = {}
    /\ cyc = NoCycle

C18_Witness ==
  /\ prog = "async"
  /\ Len(projects) = 2
  /\ logged = "bad_response"
  /\ pc = "exit"

\* every page of the log, one after the other
RECURSIVE Flatten(_)
Flatten(log) ==
  IF log = <<>> THEN <<>>
  ELSE Flatten(SubSeq(log, 1, Len(log) - 1)) \o log[Len(log)].page

RECURSIVE SumLen(_)
SumLen(log) ==
  IF log = <<>> THEN 0
  ELSE SumLen(SubSeq(log, 1, Len(log) - 1)) + Len(log[Len(log)].page)

\* C15: when gl_get_projects returns, it has made one groups.get and one
\* project listing per group name, one users.list and one project listing per
\* user name, the group listings all before the user listings, and its result
\* is the returned lists one after the other with nothing removed: its length
\* is the sum of their lengths.
C15_Enumeration ==
  epc = "returned" =>
    /\ calls = [get |-> ng, glist |-> ng, resolve |-> nu, ulist |-> nu]
    /\ Len(returned) = ng + nu
    /\ \A k \in DOMAIN returned :
         returned[k].kind = IF k <= ng THEN "group" ELSE "user"
    /\ eprojects = Flatten(returned)
    /\ Len(eprojects) = SumLen(returned)

\* two groups and one user, a project of the first group listed again for the
\* user
C15_Witness ==
  /\ epc = "returned"
  /\ ng = 2
  /\ nu = 1
  /\ returned[1].page = <<"grp/a", "grp/b">>
  /\ returned[2].page = <<>>
  /\ returned[3].page = <<"grp/a">>
  /\ eprojects = <<"grp/a", "grp/b", "grp/a">>

\* the files the current cycle of the current run opened for writing
CycleOpens == {k \in DOMAIN opens : opens[k].run = run /\ opens[k].idx = fi}

\* where the archive of the current cycle belongs: the name carries the
\* minute of the download step, in gbackup_async.py the minute at which
\* get_project_export_path ran, before the first status check
ExpectedPath ==
  [target |-> IF script = "gbackup" THEN "section" ELSE "none",
   ns |-> listing[fi],
   stamp |-> (IF script = "async" THEN fcyc.t0 ELSE fcyc.tdl) \div SecondsPerMinute]

CycleOver == fpc \in {"next", "exit"} /\ fi \in DOMAIN listing

\* C11 as stated: every cycle whose export reached `finished` has opened
\* exactly one archive file, at the expected path.
C11_EveryFinishedHasFile ==
  (CycleOver /\ fcyc.status = "finished") =>
    /\ Cardinality(CycleOpens) = 1
    /\ \A k \in CycleOpens : opens[k].path = ExpectedPath

\* C11: a cycle opens at most one archive file, only after its export reached
\* `finished`, and at the expected path; a cycle whose export reached
\* `finished` and whose download step met no error (in gbackup_async.py: got a
\* 200 response) has opened exactly one.
C11_FinishedAndDownloadedHasFile ==
  /\ Cardinality(CycleOpens) <= 1
  /\ CycleOpens # {} =>
       /\ fcyc.status = "finished"
       /\ \A k \in CycleOpens : opens[k].path = ExpectedPath
       /\ script = "async" => fcyc.outcome = "ok"
  /\ (CycleOver /\ fcyc.status = "finished" /\ fcyc.outcome = "ok") =>
       Cardinality(CycleOpens) = 1

\* gbackup_async.py: the export finished after a wait that crossed a minute
\* boundary, the download answered 200, the file carries the earlier minute
C11_Witness ==
  /\ script = "async"
  /\ fpc = "next"
  /\ fcyc.status = "finished"
  /\ fcyc.outcome = "ok"
  /\ fcyc.t0 \div SecondsPerMinute < fcyc.tdl \div SecondsPerMinute
  /\ \E k \in CycleOpens : opens[k].path.stamp = fcyc.t0 \div SecondsPerMinute

\* C12: when every export of both runs succeeded, no file opened for writing
\* by the second run is a file the first run wrote.
C12_SecondRunNeverOverwrites ==
  clean =>
    \A i, j \in DOMAIN opens :
      (opens[i].run = "first" /\ opens[j].run = "second")
        => opens[i].path # opens[j].path

\* C13: no two cycles of one run open the same archive path.
C13_NoContention ==
  \A i, j \in DOMAIN opens :
    (i < j /\ opens[i].run = opens[j].run) => opens[i].path # opens[j].path

====
